---- MODULE Spec2Model ----
(***************************************************************************)
(* Model of LaZagne's Maven module                                         *)
(* (Windows/src/LaZagne/softwares/maven/mavenrepositories.py):             *)
(* MavenRepositories.extract_master_password, extract_repositories_        *)
(* credentials, use_key_auth and run.                                      *)
(*                                                                         *)
(* Strings are sequences of atoms. An atom is one character or an          *)
(* indivisible piece of text that holds none of the characters the code    *)
(* looks for (a tag's local name, a directory). A character is written     *)
(* as itself when it is printable ASCII ("{", " ", "a"), by its escape     *)
(* when it is one of "\t", "\n", "\r", "\f", and otherwise by the name of   *)
(* its code point: "U+000B" is the vertical tab, "U+00A0" the no-break     *)
(* space, "U+1680" the Ogham space mark. (The module is ASCII throughout:  *)
(* how a raw character beyond ASCII is read depends on the encoding the    *)
(* module is read in.)                                                     *)
(* Python's None is the sequence holding the one reserved atom "None",     *)
(* which no string of the model contains.                                  *)
(*                                                                         *)
(* The code runs under Python 2 and under Python 3, and reads the private  *)
(* key file differently under each (line 130 opens it in text mode). The   *)
(* interpreter is part of the state: the variable build.                   *)
(***************************************************************************)
EXTENDS Naturals, Sequences, FiniteSets, TLC

VARIABLES
    securityFile,     \* %USERPROFILE%\.m2\settings-security.xml
    settingsFile,     \* %USERPROFILE%\.m2\settings.xml
    keyFile,          \* the private-key file on disk: its status and contents
    build,            \* the interpreter and platform run() executes under
    pc,               \* position of run()
    master_password,  \* run(): master_password
    repos_creds,      \* run(): repos_creds
    idx,              \* run(): position of the for loop in repos_creds
    values,           \* run(): values, the record being built
    pwd_found,        \* run(): pwd_found
    printed,          \* print_output was called, with pwd_found
    raised            \* the exception that left run(), "none" if none did

vars == <<securityFile, settingsFile, keyFile, build, pc, master_password,
          repos_creds, idx, values, pwd_found, printed, raised>>

---------------------------------------------------------------------------
\* Bounds of the model.

\* Longest list of sibling elements drawn as input (servers of a settings
\* file, children of the root of a security file).
MaxElems == 3

\* Longest password text and longest key file drawn as input, in atoms.
MaxLen == 3

---------------------------------------------------------------------------
\* Python values.

None == <<"None">>

\* The interpreters the code runs under. Python 2 opens a file in the C
\* library's text mode, which differs between Windows and the other
\* platforms; Python 3 reads text the same way on every platform.
Builds == {"python3", "python2", "python2-windows"}

\* The characters str.strip() removes from a text string (Python 3's str,
\* Python 2's unicode): those for which isspace() holds. Under Python 3 they
\* are U+0009 to U+000D, U+001C to U+001F, the space, U+0085, U+00A0,
\* U+1680, U+2000 to U+200A, U+2028, U+2029, U+202F, U+205F and U+3000.
Whitespace ==
    {"\t", "\n", "U+000B", "\f", "\r",
     "U+001C", "U+001D", "U+001E", "U+001F", " ",
     "U+0085", "U+00A0", "U+1680",
     "U+2000", "U+2001", "U+2002", "U+2003", "U+2004", "U+2005", "U+2006",
     "U+2007", "U+2008", "U+2009", "U+200A",
     "U+2028", "U+2029", "U+202F", "U+205F", "U+3000"}

\* Python 2.7 classifies characters by Unicode 5.2, in which U+180E is a
\* space separator as well.
text_whitespace(b) ==
    IF b = "python3" THEN Whitespace ELSE Whitespace \cup {"U+180E"}

\* The characters str.strip() removes from a byte string (Python 2's str):
\* string.whitespace, that is U+0009 to U+000D and the space. Every other
\* byte stays, the bytes of a character beyond ASCII among them.
string_whitespace == {"\t", "\n", "U+000B", "\f", "\r", " "}

SeqsUpTo(S, n) == UNION {[1..k -> S] : k \in 0..n}

\* str.lstrip(), removing the characters of chars
RECURSIVE lstrip(_, _)
lstrip(s, chars) ==
    IF s # <<>> /\ Head(s) \in chars THEN lstrip(Tail(s), chars) ELSE s

\* str.rstrip(), removing the characters of chars
RECURSIVE rstrip(_, _)
rstrip(s, chars) ==
    IF s # <<>> /\ s[Len(s)] \in chars
    THEN rstrip(SubSeq(s, 1, Len(s) - 1), chars)
    ELSE s

\* str.strip() of a text string under interpreter b: lines 59 and 119, and
\* line 131 under Python 3. (Under Python 2 the text of an element is a byte
\* string when it is ASCII throughout; the ASCII characters an XML document
\* can hold are the same whitespace in both kinds of string.)
strip(s, b) == rstrip(lstrip(s, text_whitespace(b)), text_whitespace(b))

\* str.strip() of a byte string: line 131 under Python 2.
bytes_strip(s) == rstrip(lstrip(s, string_whitespace), string_whitespace)

\* str.replace(old, new) for an atom old and a string new.
RECURSIVE replace(_, _, _)
replace(s, old, new) ==
    IF s = <<>> THEN <<>>
    ELSE (IF Head(s) = old THEN new ELSE <<Head(s)>>)
         \o replace(Tail(s), old, new)

startswith(s, c) == s # <<>> /\ Head(s) = c

endswith(s, c) == s # <<>> /\ s[Len(s)] = c

\* dict: a function from its keys. creds[k] = v / values[k] = v.
EmptyDict == <<>>

DictSet(d, k, v) == (k :> v) @@ d

---------------------------------------------------------------------------
\* xml.etree.ElementTree.

\* An element: [tag, text, children]. text is None for an element without
\* character data (<a/> and <a></a>).
Element(tag, text, children) ==
    [tag |-> tag, text |-> text, children |-> children]

\* Element.iter(): the element and its descendants in document order.
RECURSIVE Iter(_)
RECURSIVE IterAll(_)
Iter(e) == <<e>> \o IterAll(e.children)
IterAll(es) ==
    IF es = <<>> THEN <<>> ELSE Iter(Head(es)) \o IterAll(Tail(es))

\* Element.findall(".//tag"): the descendants named tag, the element itself
\* excluded, in document order.
findall(e, tag) == SelectSeq(Tail(Iter(e)), LAMBDA n : n.tag = tag)

\* A file on disk: absent, present but not parseable (malformed XML, or an
\* I/O error while reading it), or a document: its tree of elements, as the
\* parser builds it when every character of it is one XML allows.
Absent == [kind |-> "absent"]
Malformed == [kind |-> "malformed"]
Document(root) == [kind |-> "xml", root |-> root]

\* os.path.isfile
isfile(f) == f.kind # "absent"

HexDigits ==
    {"0", "1", "2", "3", "4", "5", "6", "7", "8", "9",
     "A", "B", "C", "D", "E", "F"}

\* The names of the surrogate code points, U+D800 to U+DFFF.
Surrogates ==
    {"U+D" \o a \o b \o c :
        a \in {"8", "9", "A", "B", "C", "D", "E", "F"},
        b \in HexDigits, c \in HexDigits}

\* The characters no XML document can hold, raw or as a character
\* reference: the controls below U+0020 other than \t, \n and \r, the
\* surrogates, and the two noncharacters U+FFFE and U+FFFF. The parser
\* rejects a document that holds one.
NotXmlChar ==
    Surrogates \cup
    {"U+0000", "U+0001", "U+0002", "U+0003", "U+0004", "U+0005", "U+0006",
     "U+0007", "U+0008", "U+000B", "\f", "U+000E", "U+000F", "U+0010",
     "U+0011", "U+0012", "U+0013", "U+0014", "U+0015", "U+0016", "U+0017",
     "U+0018", "U+0019", "U+001A", "U+001B", "U+001C", "U+001D", "U+001E",
     "U+001F", "U+FFFE", "U+FFFF"}

\* ET.parse(...) raises on this file.
ParseRaises(f) ==
    \/ f.kind = "malformed"
    \/ /\ f.kind = "xml"
       /\ \E i \in 1..Len(Iter(f.root)) :
              \E k \in 1..Len(Iter(f.root)[i].text) :
                  Iter(f.root)[i].text[k] \in NotXmlChar

---------------------------------------------------------------------------
\* __init__

nodes_to_extract ==
    << <<"id">>, <<"username">>, <<"password">>, <<"privateKey">>,
       <<"passphrase">> >>

settings_namespace == "{http://maven.apache.org/SETTINGS/1.0.0}"

\* os.environ.get("USERPROFILE")
USERPROFILE == <<"C:\\Users\\u">>

---------------------------------------------------------------------------
\* extract_master_password

\* Variant: the text is trimmed.
extract_master_password_stripped(f) ==
    IF isfile(f) /\ ~ParseRaises(f)
    THEN LET nodes == findall(f.root, <<"master">>)
         IN  IF nodes # <<>> /\ nodes[1].text # None
             THEN strip(nodes[1].text, "python3") ELSE None
    ELSE None

extract_master_password(f) ==
    IF isfile(f)
    THEN IF ParseRaises(f)
         THEN None                              \* except: master_password = None
         ELSE LET nodes == findall(f.root, <<"master">>)   \* config.find
              IN  IF nodes # <<>> THEN nodes[1].text ELSE None
    ELSE None

---------------------------------------------------------------------------
\* extract_repositories_credentials

Range(s) == {s[i] : i \in DOMAIN s}

\* "{http://maven.apache.org/SETTINGS/1.0.0}" + local name.
Qualified(name) == <<settings_namespace, name>>

\* The body of "for child_node in server_node" (lines 56-59), from creds,
\* under interpreter b.
\* child_node.text.strip() raises AttributeError when text is None: the
\* result says so, with the creds stored so far.
RECURSIVE ServerCreds(_, _, _)
ServerCreds(children, creds, b) ==
    IF children = <<>> THEN [raised |-> FALSE, creds |-> creds]
    ELSE LET child_node == Head(children)
             tag_name == replace(child_node.tag, settings_namespace, <<>>)
         IN  IF tag_name \in Range(nodes_to_extract)
             THEN IF child_node.text = None
                  THEN [raised |-> TRUE, creds |-> creds]
                  ELSE ServerCreds(Tail(children),
                           DictSet(creds, tag_name,
                                   strip(child_node.text, b)), b)
             ELSE ServerCreds(Tail(children), creds, b)

\* The body of "for server_node in server_nodes" (lines 54-61), from
\* repos_creds. An exception leaves the loop for the except clause, which
\* logs it; line 66 then returns repos_creds as it stands.
\* Variant: line 60's test is missing, an empty mapping is appended too.
RECURSIVE ScanServers_keep_empty(_, _, _)
ScanServers_keep_empty(server_nodes, acc, b) ==
    IF server_nodes = <<>> THEN acc
    ELSE LET r == ServerCreds(Head(server_nodes).children, EmptyDict, b)
         IN  IF r.raised THEN acc
             ELSE ScanServers_keep_empty(Tail(server_nodes),
                                         Append(acc, r.creds), b)

RECURSIVE ScanServers(_, _, _)
ScanServers(server_nodes, acc, b) ==
    IF server_nodes = <<>> THEN acc
    ELSE LET r == ServerCreds(Head(server_nodes).children, EmptyDict, b)
         IN  IF r.raised THEN acc
             ELSE ScanServers(Tail(server_nodes),
                      IF Cardinality(DOMAIN r.creds) > 0
                      THEN Append(acc, r.creds) ELSE acc, b)

extract_repositories_credentials(f, b) ==
    IF isfile(f)
    THEN IF ParseRaises(f)
         THEN <<>>
         ELSE ScanServers(findall(f.root, Qualified("server")), <<>>, b)
    ELSE <<>>

---------------------------------------------------------------------------
\* The disk, as use_key_auth and run see it. One path, KeyPath, holds a file
\* when run() starts; it is a regular file ("file"), a regular file that
\* open() refuses ("unreadable"), or missing ("absent"). No other path ever
\* names a file. The file is [status, contents, text]: contents are its
\* characters when text holds, that is when its bytes are text in the
\* locale's encoding, and its bytes (one atom a byte, "0xFF") when not.

KeyPath == USERPROFILE \o <<"\\.ssh\\id_rsa">>

\* os.path.isfile(path)
path_isfile(path, kf) == path = KeyPath /\ kf.status # "absent"

\* open(path, "r") succeeds
path_opens(path, kf) == path = KeyPath /\ kf.status = "file"

\* creds_dict["privateKey"].replace("${user.home}", USERPROFILE)
pk_file_location(creds) ==
    replace(creds[<<"privateKey">>], "${user.home}", USERPROFILE)

\* Variant: line 79's probe is missing.
use_key_auth_no_probe(creds_dict, kf) ==
    <<"privateKey">> \in DOMAIN creds_dict

use_key_auth(creds_dict, kf) ==
    IF <<"privateKey">> \in DOMAIN creds_dict
    THEN path_isfile(pk_file_location(creds_dict), kf)
    ELSE FALSE

---------------------------------------------------------------------------
\* run

\* Variant: line 121 with "or".
password_branch_or(vals, creds, master, b) ==
    LET pwd == strip(creds[<<"password">>], b)
    IN  IF startswith(pwd, "{") \/ endswith(pwd, "}")
        THEN DictSet(DictSet(vals, "SymetricEncryptionKey", master),
                     "PasswordEncrypted", pwd)
        ELSE DictSet(vals, "Password", pwd)

\* Lines 119-125: the password branch, from values with Id and Username.
password_branch(vals, creds, master, b) ==
    LET pwd == strip(creds[<<"password">>], b)
    IN  IF startswith(pwd, "{") /\ endswith(pwd, "}")
        THEN DictSet(DictSet(vals, "SymetricEncryptionKey", master),
                     "PasswordEncrypted", pwd)
        ELSE DictSet(vals, "Password", pwd)

\* Text mode of Python 3 (universal newlines): "\r\n" and a lone "\r" are
\* read as "\n".
RECURSIVE universal_newlines(_)
universal_newlines(s) ==
    IF s = <<>> THEN <<>>
    ELSE IF Head(s) = "\r"
         THEN IF Len(s) > 1 /\ s[2] = "\n"
              THEN <<"\n">> \o universal_newlines(Tail(Tail(s)))
              ELSE <<"\n">> \o universal_newlines(Tail(s))
         ELSE <<Head(s)>> \o universal_newlines(Tail(s))

\* Text mode of the C library on Windows: "\r\n" is read as "\n", and the
\* file ends at the first Ctrl-Z (U+001A).
RECURSIVE windows_text_mode(_)
windows_text_mode(s) ==
    IF s = <<>> \/ Head(s) = "U+001A" THEN <<>>
    ELSE IF Head(s) = "\r" /\ Len(s) > 1 /\ s[2] = "\n"
         THEN <<"\n">> \o windows_text_mode(Tail(Tail(s)))
         ELSE <<Head(s)>> \o windows_text_mode(Tail(s))

\* pk_file.read() raises: Python 3 decodes the file, and a file that is not
\* text in the locale's encoding makes read() raise UnicodeDecodeError.
\* Python 2 returns the bytes.
read_raises(kf, b) == b = "python3" /\ ~kf.text

\* pk_file.read() of a file opened by open(path, "r"), under interpreter b.
read(kf, b) ==
    CASE b = "python3" -> universal_newlines(kf.contents)
      [] b = "python2" -> kf.contents
      [] b = "python2-windows" -> windows_text_mode(kf.contents)

\* .strip() of what read() returned: text under Python 3, bytes under
\* Python 2.
read_strip(s, b) == IF b = "python3" THEN strip(s, b) ELSE bytes_strip(s)

\* Variant: line 131 replaces a newline by a space.
key_branch_space(vals, creds, contents, b) ==
    LET withKey == DictSet(vals, "PrivateKey",
                       read_strip(replace(contents, "\n", <<" ">>), b))
    IN  IF <<"passphrase">> \in DOMAIN creds
        THEN DictSet(withKey, "Passphrase", creds[<<"passphrase">>])
        ELSE withKey

\* Variant: the private-key branch stores the password as well.
key_branch_keeps_password(vals, creds, contents, b) ==
    LET withKey == DictSet(vals, "PrivateKey",
                       read_strip(replace(contents, "\n", <<>>), b))
        withPwd == IF <<"password">> \in DOMAIN creds
                   THEN DictSet(withKey, "Password", creds[<<"password">>])
                   ELSE withKey
    IN  IF <<"passphrase">> \in DOMAIN creds
        THEN DictSet(withPwd, "Passphrase", creds[<<"passphrase">>])
        ELSE withPwd

\* Lines 131-133: the private-key branch, from values with Id and Username
\* and contents, what pk_file.read() returned under interpreter b.
key_branch(vals, creds, contents, b) ==
    LET withKey == DictSet(vals, "PrivateKey",
                       read_strip(replace(contents, "\n", <<>>), b))
    IN  IF <<"passphrase">> \in DOMAIN creds
        THEN DictSet(withKey, "Passphrase", creds[<<"passphrase">>])
        ELSE withKey

\* run() is left by an exception: no later line runs.
Raise(exc) ==
    /\ pc' = "raised"
    /\ raised' = exc

\* Line 103.
RunLocate ==
    /\ pc = "start"
    /\ master_password' = extract_master_password(securityFile)
    /\ pc' = "scan"
    /\ UNCHANGED <<securityFile, settingsFile, keyFile, build, repos_creds, idx,
                   values, pwd_found, printed, raised>>

\* Lines 106 and 113.
RunScan ==
    /\ pc = "scan"
    /\ repos_creds' = extract_repositories_credentials(settingsFile, build)
    /\ pwd_found' = <<>>
    /\ idx' = 1
    /\ pc' = "loop"
    /\ UNCHANGED <<securityFile, settingsFile, keyFile, build, master_password,
                   values, printed, raised>>

\* Lines 114-118: the next record, its Id and Username, and the probe of
\* use_key_auth. creds["id"] and creds["username"] raise KeyError.
LoopHead ==
    /\ pc = "loop"
    /\ idx <= Len(repos_creds)
    /\ LET creds == repos_creds[idx]
       IN  IF <<"id">> \notin DOMAIN creds
           THEN /\ values' = EmptyDict
                /\ Raise("KeyError")
           ELSE IF <<"username">> \notin DOMAIN creds
           THEN /\ values' = DictSet(EmptyDict, "Id", creds[<<"id">>])
                /\ Raise("KeyError")
           ELSE /\ values' = DictSet(DictSet(EmptyDict, "Id", creds[<<"id">>]),
                                     "Username", creds[<<"username">>])
                /\ pc' = IF use_key_auth(creds, keyFile)
                         THEN "key" ELSE "password"
                /\ UNCHANGED raised
    /\ UNCHANGED <<securityFile, settingsFile, keyFile, build, master_password,
                   repos_creds, idx, pwd_found, printed>>

\* Lines 119-125 and 134. creds["password"] raises KeyError.
LoopPassword ==
    /\ pc = "password"
    /\ LET creds == repos_creds[idx]
       IN  IF <<"password">> \notin DOMAIN creds
           THEN /\ Raise("KeyError")
                /\ UNCHANGED <<values, pwd_found, idx>>
           ELSE /\ values' = password_branch(values, creds, master_password,
                                                build)
                /\ pwd_found' = Append(pwd_found, values')
                /\ idx' = idx + 1
                /\ pc' = "loop"
                /\ UNCHANGED raised
    /\ UNCHANGED <<securityFile, settingsFile, keyFile, build, master_password,
                   repos_creds, printed>>

\* Lines 128-134. open() raises IOError when the file that passed the probe
\* is gone or cannot be read; read() raises UnicodeDecodeError when Python 3
\* cannot decode the file.
LoopKey ==
    /\ pc = "key"
    /\ LET creds == repos_creds[idx]
       IN  IF ~path_opens(pk_file_location(creds), keyFile)
           THEN /\ Raise("IOError")
                /\ UNCHANGED <<values, pwd_found, idx>>
           ELSE IF read_raises(keyFile, build)
           THEN /\ Raise("UnicodeDecodeError")
                /\ UNCHANGED <<values, pwd_found, idx>>
           ELSE /\ values' = key_branch(values, creds, read(keyFile, build),
                                        build)
                /\ pwd_found' = Append(pwd_found, values')
                /\ idx' = idx + 1
                /\ pc' = "loop"
                /\ UNCHANGED raised
    /\ UNCHANGED <<securityFile, settingsFile, keyFile, build, master_password,
                   repos_creds, printed>>

\* Line 137, after the last record.
PrintOutput ==
    /\ pc = "loop"
    /\ idx > Len(repos_creds)
    /\ printed' = TRUE
    /\ pc' = "done"
    /\ UNCHANGED <<securityFile, settingsFile, keyFile, build, master_password,
                   repos_creds, idx, values, pwd_found, raised>>

\* The environment, between the probe of use_key_auth (line 79) and the
\* open of line 130: the key file is deleted.
EnvRemoveKeyFile ==
    /\ pc = "key"
    /\ keyFile.status # "absent"
    /\ keyFile' = [keyFile EXCEPT !.status = "absent"]
    /\ UNCHANGED <<securityFile, settingsFile, build, pc, master_password,
                   repos_creds, idx, values, pwd_found, printed, raised>>

\* The environment, between the probe of use_key_auth (line 79) and the
\* open of line 130: the key file loses its read permission.
EnvRevokeKeyFile ==
    /\ pc = "key"
    /\ keyFile.status = "file"
    /\ keyFile' = [keyFile EXCEPT !.status = "unreadable"]
    /\ UNCHANGED <<securityFile, settingsFile, build, pc, master_password,
                   repos_creds, idx, values, pwd_found, printed, raised>>

---------------------------------------------------------------------------
\* The inputs: what the two files and the disk may hold when run() starts.

Leaf(tag, text) == Element(tag, text, <<>>)

Master(text) == Leaf(<<"master">>, text)

SecurityDoc(children) ==
    Document(Element(<<"settingsSecurity">>, None, children))

Field(name, text) == Leaf(Qualified(name), text)

Server(children) == Element(Qualified("server"), None, children)

SettingsDoc(servers) ==
    Document(Element(Qualified("settings"), None,
                     <<Element(Qualified("servers"), None, servers)>>))

\* Children of the root of a security file: master elements with and
\* without text, another element, master elements one level down, a
\* master element in the settings namespace, and a master element whose
\* text holds a surrogate, which makes the file one the parser rejects.
SecurityChildMenu ==
    { Master(None), Master(<<"m">>), Master(<<"\t", "m", "\n">>),
      Master(<<"U+D800", "s">>),
      Leaf(<<"relocation">>, <<"x">>),
      Element(<<"wrap">>, None, <<Master(<<"n">>)>>),
      Element(<<"wrap">>, None, <<Master(None)>>),
      Leaf(Qualified("master"), <<"q">>) }

\* The children of the root of a security file, the root named
\* settingsSecurity or master.
SecurityChildren == SeqsUpTo(SecurityChildMenu, MaxElems)

\* Children of one server element: recognized fields with and without
\* text, with whitespace of every kind around the text (U+180E is
\* whitespace to Python 2 only), an unrecognized field, a recognized name
\* outside the namespace, and a field whose text holds a form feed, which
\* makes the file one the parser rejects.
ScanChildMenu ==
    { Field("id", None), Field("id", <<" ", "a", "\t">>),
      Field("id", <<"U+180E", "b">>),
      Field("password", None),
      Field("password", <<"U+00A0", "p", " ", "q", "U+1680">>),
      Field("comment", None), Field("comment", <<"c">>),
      Leaf(<<"id">>, <<"n">>),
      Field("username", <<"\f", "u">>) }

\* Server elements of a settings file with several of them.
ScanServerMenu ==
    { Server(<<Field("id", <<"s1">>), Field("username", <<"u">>),
               Field("password", <<"\t", "p", "\r", "\n">>)>>),
      Server(<<Field("id", <<"s2">>), Field("password", None)>>),
      Server(<<Field("comment", <<"c">>), Field("note", None)>>),
      Server(<<Field("id", <<"s4">>), Field("id", <<"s4b">>),
               Leaf(<<"{other}", "username">>, <<"x">>)>>),
      Element(<<"server">>, None, <<Leaf(<<"id">>, <<"s5">>)>>),
      Server(<<Leaf(<<"id">>, <<"s6">>),
               Field("privateKey", <<"${user.home}", "\\k">>),
               Field("passphrase", <<"U+0085", " ", "pp">>)>>),
      Server(<<>>),
      Server(<<Field("id", <<"s8">>),
               Server(<<Field("id", <<"s8in">>)>>)>>) }

\* The children of the one server element, and the server elements, of a
\* settings file.
ScanChildren == SeqsUpTo(ScanChildMenu, MaxElems)
ScanServerElems == SeqsUpTo(ScanServerMenu, MaxElems)

\* privateKey values: the key file through ${user.home}, the key file
\* written out, and a path that names no file.
HomeKeyPath == <<"${user.home}", "\\.ssh\\id_rsa">>
MissingKeyPath == <<"${user.home}", "\\nokey">>

\* The key file: a text file with lines that end in "\r\n" and in "\n",
\* and a file that is not text in the locale's encoding.
DefaultKey ==
    [status |-> "file", contents |-> <<"A", "\r", "\n", "B", "\n">>,
     text |-> TRUE]
BinaryKey ==
    [status |-> "file", contents |-> <<"0xFF", "0xFE", "A", "\n", "B">>,
     text |-> FALSE]

WithMaster == SecurityDoc(<<Master(<<"m">>)>>)

\* Server elements of a run over several records.
BatchMenu ==
    { Server(<<Field("id", <<"r1">>), Field("username", <<"bob">>),
               Field("password", <<"plain">>)>>),
      Server(<<Field("id", <<"r2">>), Field("username", <<"bob">>),
               Field("password", <<"{", "ENC", "}">>)>>),
      Server(<<Field("username", <<"bob">>), Field("password", <<"p3">>)>>),
      Server(<<Field("id", <<"r4">>), Field("password", <<"p4">>)>>),
      Server(<<Field("id", <<"r5">>), Field("username", <<"bob">>),
               Field("privateKey", MissingKeyPath)>>),
      Server(<<Field("id", <<"r6">>), Field("username", <<"bob">>),
               Field("privateKey", HomeKeyPath),
               Field("passphrase", <<"pp">>)>>),
      Server(<<Field("id", <<"r7">>), Field("username", <<"bob">>),
               Field("password", <<"p7">>),
               Field("privateKey", KeyPath)>>),
      Server(<<Field("id", <<"r8">>), Field("username", <<"bob">>),
               Field("password", <<"{", "}">>),
               Field("privateKey", MissingKeyPath),
               Field("passphrase", <<"pp">>)>>) }

\* The server elements of a run over several records.
BatchServers == SeqsUpTo(BatchMenu, MaxElems)

\* One record on the password path, over every password text.
PasswordTexts == SeqsUpTo({"{", "}", "a", " ", "U+180E"}, MaxLen) \ {<<>>}

\* The settings file of a run over one record: id, username and fields.
OneRecord(fields) ==
    SettingsDoc(<<Server(<<Field("id", <<"r1">>),
                           Field("username", <<"bob">>)>> \o fields)>>)

\* One record that names the key file, over every content of a text file:
\* line ends of both kinds, whitespace that is ASCII and that is not, and
\* Ctrl-Z.
KeyContents == SeqsUpTo({"A", "\n", "\r", " ", "U+1680", "U+001A"}, MaxLen)

TextKey(c) == [status |-> "file", contents |-> c, text |-> TRUE]

---------------------------------------------------------------------------
\* Specifications.

\* The state in which run() is entered.
Start(security, settings, key, b) ==
    /\ securityFile = security
    /\ settingsFile = settings
    /\ keyFile = key
    /\ build = b
    /\ pc = "start"
    /\ master_password = None
    /\ repos_creds = <<>>
    /\ idx = 1
    /\ values = EmptyDict
    /\ pwd_found = <<>>
    /\ printed = FALSE
    /\ raised = "none"

\* run() over several records.
InitBatch ==
    \E s \in {Malformed, WithMaster}, sv \in BatchServers, b \in Builds :
        Start(s, SettingsDoc(sv), DefaultKey, b)

\* run() over one record on the password path, over every password text.
InitPassword ==
    \E s \in {Absent, WithMaster},
       pw \in {<<>>} \cup {<<Field("password", t)>> : t \in PasswordTexts},
       pk \in {<<>>, <<Field("privateKey", MissingKeyPath)>>},
       b \in Builds :
        Start(s, OneRecord(pw \o pk), DefaultKey, b)

\* run() over one record that names the key file, over every content of a
\* text file.
InitKey ==
    \E c \in KeyContents, b \in Builds :
        Start(WithMaster,
              OneRecord(<<Field("privateKey", HomeKeyPath),
                          Field("password", <<"p">>),
                          Field("passphrase", <<"p", " ", "p">>)>>),
              TextKey(c), b)

\* run() over one record that names the key file, over every shape of the
\* record and both kinds of key file.
InitKeyRecord ==
    \E loc \in {HomeKeyPath, KeyPath},
       pw \in {<<>>, <<Field("password", <<"p">>)>>},
       pp \in {<<>>, <<Field("passphrase", <<"p", " ", "p">>)>>},
       k \in {DefaultKey, BinaryKey},
       b \in Builds :
        Start(WithMaster, OneRecord(<<Field("privateKey", loc)>> \o pw \o pp),
              k, b)

Init == InitBatch \/ InitPassword \/ InitKey \/ InitKeyRecord

Next ==
    \/ RunLocate
    \/ RunScan
    \/ LoopHead
    \/ LoopPassword
    \/ LoopKey
    \/ PrintOutput
    \/ EnvRemoveKeyFile
    \/ EnvRevokeKeyFile

\* run() over the run inputs.
Spec == Init /\ [][Next]_vars

\* extract_master_password over the security files.
\* (No line of it depends on the platform.)
InitLocate ==
    \E b \in {"python3", "python2"} :
        \/ \E f \in {Absent, Malformed} : Start(f, Absent, DefaultKey, b)
        \/ \E ch \in SecurityChildren :
               \/ Start(SecurityDoc(ch), Absent, DefaultKey, b)
               \/ Start(Document(Element(<<"master">>, <<"r">>, ch)), Absent,
                        DefaultKey, b)

NextLocate == RunLocate

SpecLocate == InitLocate /\ [][NextLocate]_vars

\* extract_repositories_credentials over the settings files.
\* (No line of it depends on the platform.)
InitScan ==
    \E b \in {"python3", "python2"} :
        \/ \E f \in {Absent, Malformed} : Start(Absent, f, DefaultKey, b)
        \/ \E ch \in ScanChildren :
               Start(Absent, SettingsDoc(<<Server(ch)>>), DefaultKey, b)
        \/ \E sv \in ScanServerElems :
               Start(Absent, SettingsDoc(sv), DefaultKey, b)

NextScan ==
    \/ RunLocate
    \/ RunScan

SpecScan == InitScan /\ [][NextScan]_vars

---------------------------------------------------------------------------
\* Vocabulary of the properties, stated on the documents themselves.

\* The places of an element's tree: <<>> is the element, <<i>> its i-th
\* child, <<i, j>> that child's j-th child, and so on.
RECURSIVE PathsOf(_)
PathsOf(e) ==
    {<<>>} \cup UNION { {<<i>> \o p : p \in PathsOf(e.children[i])} :
                         i \in DOMAIN e.children }

RECURSIVE NodeAt(_, _)
NodeAt(e, p) == IF p = <<>> THEN e ELSE NodeAt(e.children[p[1]], Tail(p))

\* Document order: an element before its children, siblings left to right.
RECURSIVE DocBefore(_, _)
DocBefore(p, q) ==
    IF p = <<>> THEN q # <<>>
    ELSE IF q = <<>> THEN FALSE
    ELSE \/ p[1] < q[1]
         \/ p[1] = q[1] /\ DocBefore(Tail(p), Tail(q))

\* The first place of P in document order, P not empty.
FirstOf(P) == CHOOSE p \in P : \A q \in P : q = p \/ DocBefore(p, q)

\* The places of the elements named tag, below the root or at it.
PlacesNamed(root, tag) == {p \in PathsOf(root) : NodeAt(root, p).tag = tag}

AllowList == {<<"id">>, <<"username">>, <<"password">>, <<"privateKey">>,
              <<"passphrase">>}

\* A tag without the settings namespace in front of it.
BareName(tag) == IF Head(tag) = settings_namespace THEN Tail(tag) ELSE tag

\* The positions of the children of server that carry field name k.
ChildrenNamed(server, k) ==
    {i \in DOMAIN server.children : BareName(server.children[i].tag) = k}

Last(I) == CHOOSE i \in I : \A j \in I : j <= i

\* The file exists and the parser accepts it.
WellFormed(f) == isfile(f) /\ ~ParseRaises(f)

\* Whitespace, as the interpreter of the run classifies the characters of
\* a text.
Blank == text_whitespace(build)

\* Whitespace of what the interpreter of the run reads from a file: of a
\* text under Python 3, of bytes under Python 2.
FileBlank == IF build = "python3" THEN Blank ELSE string_whitespace

\* t is s trimmed of the characters of W: s is characters of W, then t,
\* then characters of W, and t neither starts nor ends with one.
IsTrimOf(t, s, W) ==
    /\ \E i \in 1..(Len(s) + 1), j \in 0..Len(s) :
           /\ t = SubSeq(s, i, j)
           /\ \A k \in 1..(i - 1) : s[k] \in W
           /\ \A k \in (j + 1)..Len(s) : s[k] \in W
    /\ t # <<>> => (t[1] \notin W /\ t[Len(t)] \notin W)

RunEnded == pc \in {"done", "raised"}

AfterScan == pc \notin {"start", "scan"}

---------------------------------------------------------------------------
\* C4 (as stated): after extract_master_password the result is None when
\* the security file is absent, malformed, without a master element, or
\* with master elements that all lack text; and when a master element with
\* text exists anywhere in the tree, the result is the text of the first
\* master element with text.
C4_Original ==
    pc # "start" =>
        IF ~WellFormed(securityFile) THEN master_password = None
        ELSE LET root == securityFile.root
                 withText == {p \in PlacesNamed(root, <<"master">>) :
                                NodeAt(root, p).text # None}
             IN  IF withText = {} THEN master_password = None
                 ELSE master_password = NodeAt(root, FirstOf(withText)).text

\* C4 (amended): after extract_master_password the result is None when the
\* security file is absent or malformed or its root has no descendant named
\* master; otherwise it is the text, unmodified, of the first descendant of
\* the root named master, in document order, which is None when that
\* element has no text.
C4_FirstMasterDescendant ==
    pc # "start" =>
        IF ~WellFormed(securityFile) THEN master_password = None
        ELSE LET root == securityFile.root
                 below == PlacesNamed(root, <<"master">>) \ {<<>>}
             IN  IF below = {} THEN master_password = None
                 ELSE master_password = NodeAt(root, FirstOf(below)).text

\* The first master element lies two levels down, after another element,
\* and its text, with its surrounding whitespace, is the result.
C4_Witness ==
    /\ pc # "start"
    /\ WellFormed(securityFile)
    /\ LET below == PlacesNamed(securityFile.root, <<"master">>) \ {<<>>}
       IN  /\ Cardinality(below) >= 2
           /\ FirstOf(below) \in {<<2, 1>>, <<2>>}
           /\ NodeAt(securityFile.root, FirstOf(below)).text
                  \in {<<"n">>, <<"\t", "m", "\n">>}
    /\ master_password \in {<<"n">>, <<"\t", "m", "\n">>}

---------------------------------------------------------------------------
\* The recognized fields of a server element and the mapping the scan
\* makes of them.

RecognizedNames(server) ==
    {k \in AllowList : ChildrenNamed(server, k) # {}}

\* m holds exactly the recognized fields of server, each with the trimmed
\* text of the last child of that name.
ComesFrom(m, server) ==
    /\ DOMAIN m = RecognizedNames(server)
    /\ \A k \in DOMAIN m :
           LET text == server.children[Last(ChildrenNamed(server, k))].text
           IN  text # None /\ IsTrimOf(m[k], text, Blank)

\* f maps the elements of a result, in order, to places of servers.
InDocumentOrder(f) ==
    \A i, j \in DOMAIN f : i < j => DocBefore(f[i], f[j])

\* C5: for a well-formed settings file with N server entries the scan
\* returns at most N mappings, each non-empty with keys in the allow-list,
\* each made from a server entry with a recognized field, in the document
\* order of those entries.
C5_ScanShape ==
    (AfterScan /\ WellFormed(settingsFile)) =>
        LET root == settingsFile.root
            servers == PlacesNamed(root, Qualified("server")) \ {<<>>}
        IN  /\ Len(repos_creds) <= Cardinality(servers)
            /\ \A i \in DOMAIN repos_creds :
                   /\ DOMAIN repos_creds[i] # {}
                   /\ DOMAIN repos_creds[i] \subseteq AllowList
            /\ \E f \in [DOMAIN repos_creds -> servers] :
                   /\ InDocumentOrder(f)
                   /\ \A i \in DOMAIN f :
                          /\ RecognizedNames(NodeAt(root, f[i])) # {}
                          /\ ComesFrom(repos_creds[i], NodeAt(root, f[i]))

\* Three server entries, the second with unrecognized fields only, and the
\* scan returned the first and the third.
C5_Witness ==
    /\ AfterScan
    /\ WellFormed(settingsFile)
    /\ LET root == settingsFile.root
           servers == PlacesNamed(root, Qualified("server")) \ {<<>>}
       IN  /\ Cardinality(servers) = 3
           /\ \E p \in servers :
                  /\ NodeAt(root, p).children # <<>>
                  /\ RecognizedNames(NodeAt(root, p)) = {}
    /\ Len(repos_creds) = 2
    /\ repos_creds[1] # repos_creds[2]

---------------------------------------------------------------------------
\* The fields of a server that have text, and the mapping the scan is to
\* make of them when a field without text is skipped.

FieldsWithText(server) ==
    {k \in AllowList :
       \E i \in ChildrenNamed(server, k) : server.children[i].text # None}

\* The text of the last child of server named k that has text.
LastText(server, k) ==
    server.children[Last({i \in ChildrenNamed(server, k) :
                            server.children[i].text # None})].text

\* m holds exactly the fields of server that have text, each with the
\* trimmed text of the last child of that name that has text.
SkippingCreds(m, server) ==
    /\ DOMAIN m = FieldsWithText(server)
    /\ \A k \in DOMAIN m : IsTrimOf(m[k], LastText(server, k), Blank)

\* C9: the scan of a well-formed settings file returns, in document order,
\* the mapping of every server entry that has a recognized field with
\* text; a recognized field without text is not stored and stops nothing.
C9_Original ==
    (AfterScan /\ WellFormed(settingsFile)) =>
        LET root == settingsFile.root
            servers == PlacesNamed(root, Qualified("server")) \ {<<>>}
        IN  \E f \in [DOMAIN repos_creds -> servers] :
                /\ InDocumentOrder(f)
                /\ \A i \in DOMAIN f :
                       SkippingCreds(repos_creds[i], NodeAt(root, f[i]))
                /\ \A p \in servers :
                       FieldsWithText(NodeAt(root, p)) # {}
                           => \E i \in DOMAIN f : f[i] = p

\* Handling some server entry of the file raises: a recognized field of it
\* has no text.
ServerEntryRaises(f) ==
    /\ WellFormed(f)
    /\ \E p \in PlacesNamed(f.root, Qualified("server")) \ {<<>>} :
           \E k \in AllowList :
               \E i \in ChildrenNamed(NodeAt(f.root, p), k) :
                   NodeAt(f.root, p).children[i].text = None

\* C2: when parsing or processing the settings file fails, the scan
\* returns the empty sequence.
C2_Original ==
    (AfterScan /\ (ParseRaises(settingsFile) \/ ServerEntryRaises(settingsFile)))
        => repos_creds = <<>>

---------------------------------------------------------------------------
\* Vocabulary of the properties of run(). A record of pwd_found stands at
\* the position of the raw record it was made from: run() appends one
\* record per raw record and stops at the first that fails.

\* ${user.home} replaced by the home directory, which is one atom.
Substituted(path) ==
    [i \in DOMAIN path |->
       IF path[i] = "${user.home}" THEN USERPROFILE[1] ELSE path[i]]

HasKey(c) == <<"privateKey">> \in DOMAIN c

\* The record's privateKey names the key file of the disk.
NamesKeyFile(c) == HasKey(c) /\ Substituted(c[<<"privateKey">>]) = KeyPath

\* The record's privateKey names a path where no file ever is.
NamesNoFile(c) == HasKey(c) /\ Substituted(c[<<"privateKey">>]) # KeyPath

Complete(c) == {<<"id">>, <<"username">>, <<"password">>} \subseteq DOMAIN c

\* s starts with "{" and ends with "}".
Wrapped(s) == Len(s) >= 2 /\ s[1] = "{" /\ s[Len(s)] = "}"

\* The characters of s at the positions of K, in order.
Kept(s, K) ==
    LET upTo[n \in 0..Len(s)] ==
            IF n = 0 THEN <<>>
            ELSE IF n \in K THEN Append(upTo[n - 1], s[n]) ELSE upTo[n - 1]
    IN  upTo[Len(s)]

\* The positions of the line ends of a file's contents s, as the
\* interpreter of the run reads the file: Python 3 takes "\r\n", "\r" and
\* "\n" for a line end, Python 2 takes "\n", and on Windows "\r\n" as
\* well; there the contents end before the first Ctrl-Z.
LineEnds(s) ==
    CASE build = "python3" -> {i \in DOMAIN s : s[i] \in {"\r", "\n"}}
      [] build = "python2" -> {i \in DOMAIN s : s[i] = "\n"}
      [] build = "python2-windows" ->
            {i \in DOMAIN s :
               \/ s[i] = "\n"
               \/ s[i] = "\r" /\ i < Len(s) /\ s[i + 1] = "\n"
               \/ \E k \in 1..i : s[k] = "U+001A"}

\* The contents s of a file without their line ends.
WithoutNewlines(s) == Kept(s, DOMAIN s \ LineEnds(s))

Payload(v) == DOMAIN v \ {"Id", "Username"}

PasswordShape == {"Password"}
EncryptedShape == {"SymetricEncryptionKey", "PasswordEncrypted"}
KeyShapes == {{"PrivateKey"}, {"PrivateKey", "Passphrase"}}

---------------------------------------------------------------------------
\* C1: in a run over records of which none names the key file, a record
\* that lacks id, username or password is the only one left out: the run
\* ends with print_output called on the records made from all the others,
\* in order.
C1_Original ==
    (/\ RunEnded
     /\ \A i \in DOMAIN repos_creds : ~NamesKeyFile(repos_creds[i])
     /\ \E i \in DOMAIN repos_creds : ~Complete(repos_creds[i]))
    => LET good == SelectSeq(repos_creds, Complete)
       IN  /\ printed
           /\ Len(pwd_found) = Len(good)
           /\ \A i \in DOMAIN pwd_found :
                  pwd_found[i]["Id"] = good[i][<<"id">>]

\* C3: every record appended to the output has Id and Username and
\* exactly one payload: Password, or the pair SymetricEncryptionKey and
\* PasswordEncrypted, or PrivateKey with or without Passphrase.
C3_OneShape ==
    \A i \in DOMAIN pwd_found :
        /\ {"Id", "Username"} \subseteq DOMAIN pwd_found[i]
        /\ Payload(pwd_found[i])
               \in {PasswordShape, EncryptedShape} \cup KeyShapes

\* The output holds a record of each shape, one of them made from a raw
\* record that has a password and names the key file.
C3_Witness ==
    /\ printed
    /\ \E i, j, k \in DOMAIN pwd_found :
           /\ Payload(pwd_found[i]) = PasswordShape
           /\ Payload(pwd_found[j]) = EncryptedShape
           /\ Payload(pwd_found[k]) \in KeyShapes
           /\ <<"password">> \in DOMAIN repos_creds[k]

\* C6: a record made on the password path carries SymetricEncryptionKey =
\* the master password (None included) and PasswordEncrypted = the trimmed
\* password exactly when the trimmed password starts with "{" and ends
\* with "}", and Password = the trimmed password otherwise; a record with
\* id, username and password never fails, whatever the master password.
C6_PasswordPath ==
    /\ \A i \in DOMAIN pwd_found :
           LET c == repos_creds[i]
               v == pwd_found[i]
           IN  "PrivateKey" \notin DOMAIN v =>
                   /\ <<"password">> \in DOMAIN c
                   /\ \/ /\ Payload(v) = EncryptedShape
                         /\ v["SymetricEncryptionKey"] = master_password
                         /\ IsTrimOf(v["PasswordEncrypted"],
                                     c[<<"password">>], Blank)
                         /\ Wrapped(v["PasswordEncrypted"])
                      \/ /\ Payload(v) = PasswordShape
                         /\ IsTrimOf(v["Password"], c[<<"password">>], Blank)
                         /\ ~Wrapped(v["Password"])
    /\ (pc = "raised" /\ raised = "KeyError") => ~Complete(repos_creds[idx])

\* The password "{}" with no master password: an encrypted record whose
\* key is None.
C6_Witness ==
    \E i \in DOMAIN pwd_found :
        /\ Payload(pwd_found[i]) = EncryptedShape
        /\ pwd_found[i]["PasswordEncrypted"] = <<"{", "}">>
        /\ pwd_found[i]["SymetricEncryptionKey"] = None
        /\ securityFile = Absent

\* C7 (as stated): while the key file is a readable regular file, the
\* record made from a raw record whose privateKey names it (after the
\* substitution of ${user.home}) carries PrivateKey = the file's contents
\* with every newline character ("\n") removed, nothing put in its place,
\* and surrounding whitespace stripped, Passphrase = the raw passphrase
\* exactly when there is one, and nothing else besides Id and Username.
C7_Original ==
    \A i \in DOMAIN pwd_found :
        LET c == repos_creds[i]
            v == pwd_found[i]
        IN  (NamesKeyFile(c) /\ keyFile.status = "file") =>
                /\ Payload(v) = {"PrivateKey"} \cup
                       (IF <<"passphrase">> \in DOMAIN c
                        THEN {"Passphrase"} ELSE {})
                /\ IsTrimOf(v["PrivateKey"],
                            SelectSeq(keyFile.contents, LAMBDA a : a # "\n"),
                            Whitespace)
                /\ <<"passphrase">> \in DOMAIN c
                       => v["Passphrase"] = c[<<"passphrase">>]

\* C7 (amended): while the key file is a readable regular file, the record
\* made from a raw record whose privateKey names it (after the
\* substitution of ${user.home}) carries PrivateKey = the file's contents
\* as the interpreter reads them, without their line ends, nothing put in
\* their place, and without surrounding whitespace, Passphrase = the raw
\* passphrase exactly when there is one, and nothing else besides Id and
\* Username. Python 3 reads text: "\r\n", a lone "\r" and "\n" are line
\* ends, and whitespace is what isspace() holds for. Python 2 reads bytes:
\* "\n" is the line end, on Windows "\r\n" as well, where the contents end
\* before the first Ctrl-Z, and whitespace is the ASCII whitespace.
C7_KeyPath ==
    \A i \in DOMAIN pwd_found :
        LET c == repos_creds[i]
            v == pwd_found[i]
        IN  (NamesKeyFile(c) /\ keyFile.status = "file") =>
                /\ Payload(v) = {"PrivateKey"} \cup
                       (IF <<"passphrase">> \in DOMAIN c
                        THEN {"Passphrase"} ELSE {})
                /\ IsTrimOf(v["PrivateKey"],
                            WithoutNewlines(keyFile.contents), FileBlank)
                /\ "\n" \notin Range(v["PrivateKey"])
                /\ <<"passphrase">> \in DOMAIN c
                       => v["Passphrase"] = c[<<"passphrase">>]
                /\ v["Id"] = c[<<"id">>]
                /\ v["Username"] = c[<<"username">>]

\* A raw record with a password and a passphrase, its key file named
\* through ${user.home} and holding a carriage return between two
\* characters, read by Python 3.
C7_Witness ==
    /\ build = "python3"
    /\ keyFile = [status |-> "file", contents |-> <<"A", "\r", "A">>,
                  text |-> TRUE]
    /\ \E i \in DOMAIN pwd_found :
           /\ {<<"privateKey">>, <<"password">>, <<"passphrase">>}
                  \subseteq DOMAIN repos_creds[i]
           /\ repos_creds[i][<<"privateKey">>] = HomeKeyPath
           /\ Payload(pwd_found[i]) = {"PrivateKey", "Passphrase"}
           /\ pwd_found[i]["PrivateKey"] = <<"A", "A">>
           /\ pwd_found[i]["Passphrase"] = <<"p", " ", "p">>

\* C8: a run in which the key file was deleted or made unreadable between
\* the probe and the open loses that record only: it ends with
\* print_output called, and the output holds a record for every raw record
\* with id, username and password that does not name the key file.
C8_Original ==
    (RunEnded /\ keyFile.status # "file") =>
        /\ printed
        /\ \A i \in DOMAIN repos_creds :
               (Complete(repos_creds[i]) /\ ~NamesKeyFile(repos_creds[i])) =>
                   \E j \in DOMAIN pwd_found :
                       pwd_found[j]["Id"] = repos_creds[i][<<"id">>]

\* C10: a raw record whose privateKey names no file is handled on the
\* password path: with a password its record has the password shape, never
\* PrivateKey or Passphrase; without one it fails, with KeyError, and the
\* run never gets past it.
C10_FallThrough ==
    /\ \A i \in DOMAIN pwd_found :
           NamesNoFile(repos_creds[i]) =>
               /\ <<"password">> \in DOMAIN repos_creds[i]
               /\ Payload(pwd_found[i]) \in {PasswordShape, EncryptedShape}
    /\ (/\ pc = "raised"
        /\ NamesNoFile(repos_creds[idx])
        /\ {<<"id">>, <<"username">>} \subseteq DOMAIN repos_creds[idx])
       => /\ raised = "KeyError"
          /\ <<"password">> \notin DOMAIN repos_creds[idx]
    /\ \A i \in DOMAIN repos_creds :
           (NamesNoFile(repos_creds[i])
            /\ <<"password">> \notin DOMAIN repos_creds[i])
               => (idx <= i /\ pc # "done")

\* After a record with a password and a passphrase whose privateKey names
\* no file, made with the password shape, the run has failed on a record
\* whose privateKey names no file and that has no password.
C10_Witness ==
    /\ pc = "raised"
    /\ raised = "KeyError"
    /\ idx = 2
    /\ NamesNoFile(repos_creds[2])
    /\ <<"password">> \notin DOMAIN repos_creds[2]
    /\ Len(pwd_found) = 1
    /\ NamesNoFile(repos_creds[1])
    /\ <<"passphrase">> \in DOMAIN repos_creds[1]
    /\ Payload(pwd_found[1]) = EncryptedShape

====
